---------------------------- MODULE Spec2Model ----------------------------
(***************************************************************************)
(* A model of the task service of simple-todo-app: the tasks table, the    *)
(* handlers createTask, toggleTask, updateTask, deleteTask and getTasks,   *)
(* and the zod schemas the RPC boundary validates their inputs with; and   *)
(* of its client, the App component: its state, its event handlers up to   *)
(* and after the RPC each of them awaits, and the RPCs in flight.          *)
(*                                                                         *)
(* Values.  A JavaScript string is a sequence of one-character strings, so *)
(* that its length is Len and "" is << >>.  null and undefined are the two *)
(* one-element sequences Null and Undefined, whose element is no           *)
(* character, so they differ from every string; true and false are True    *)
(* and False, built the same way.  A Date is the number of                 *)
(* milliseconds it holds.  The application server and the database read    *)
(* the same monotonic clock.  The database itself never fails.             *)
(*                                                                         *)
(* The client.  A handler of the App is two steps: from the event to its   *)
(* await, and from the await on, once the RPC has been answered or         *)
(* rejected.  A state update made in a step is rendered before the next    *)
(* event is handled, and a disabled control raises no event.  The server   *)
(* takes the RPCs in flight in any order and the answers come back in any  *)
(* order.                                                                  *)
(***************************************************************************)
EXTENDS Integers, Sequences, FiniteSets

VARIABLES
    tasksTable,   \* the rows of the tasks table: a function from id to row
    idSeq,        \* the next value of the serial sequence behind tasks.id
    clock,        \* the current time, in milliseconds
    last,         \* the last RPC: its procedure, input, the table before it, its outcome
    created,      \* history: the ids createTask has returned
    deleted,      \* history: the ids deleteTask has answered success: true for
    tasks,        \* App: the local list of tasks
    isLoading,    \* App: the flag the checkboxes and delete buttons are disabled by
    newTaskTitle, \* App: the text in the input
    isCreating,   \* App: the flag the input and the submit button are disabled by
    loadTasksPc,  \* App: where loadTasks is: "start", "await" or "done"
    rpcs,         \* the RPCs in flight, in the order they were issued
    settled,      \* history: the RPC a handler has just resumed from, and the list before
    added,        \* history: the ids whose createTask response the client has taken
    removed       \* history: the ids whose deleteTask response was success: true

serverVars == <<tasksTable, idSeq, clock, last, created, deleted>>

appVars == <<tasks, isLoading, newTaskTitle, isCreating, loadTasksPc>>

historyVars == <<settled, added, removed>>

clientVars == <<appVars, rpcs, historyVars>>

vars == <<serverVars, clientVars>>

(***************************************************************************)
(* Bounds of the model.                                                    *)
(***************************************************************************)
MaxTasks == 2     \* rows ever inserted
MaxTime == 2      \* last clock reading
MaxInFlight == 4  \* RPCs of the client in flight at once

(***************************************************************************)
(* JavaScript values.                                                      *)
(***************************************************************************)
Null == <<"null">>
Undefined == <<"undefined">>
True == <<"true">>
False == <<"false">>

IsString(v) == v \notin {Null, Undefined, True, False}

\* JavaScript truthiness of a string, null or undefined (the left operand of ||)
Truthy(v) == IsString(v) /\ Len(v) > 0

\* Truthiness of a boolean or undefined
TruthyBool(v) == v = True

PlaceholderTitle ==
    <<"P", "l", "a", "c", "e", "h", "o", "l", "d", "e", "r", " ", "t", "i", "t", "l", "e">>

(***************************************************************************)
(* The inputs the model draws.                                             *)
(***************************************************************************)
Titles == {<< >>, <<"a">>}
Descriptions == {<< >>, <<"d">>}
Ids == 1..MaxTasks
Bools == {True, False}

CreateInputs ==
    [title : Titles, description : Descriptions \cup {Null, Undefined}]

UpdateInputs ==
    [id : Ids,
     title : Titles \cup {<<"b">>, Undefined},
     description : {<<"d">>, Null, Undefined},
     completed : Bools \cup {Undefined}]

ToggleInputs == [id : Ids, completed : Bools]

DeleteInputs == [id : Ids]

\* The fewer inputs drawn where all five procedures run together
StoreCreateInputs == [title : {<<"a">>}, description : {<<"d">>}]

StoreUpdateInputs ==
    [id : Ids,
     title : {<<"b">>},
     description : {Undefined},
     completed : {True, Undefined}]

(***************************************************************************)
(* The zod schemas.                                                        *)
(***************************************************************************)
\* A faulty variant: the title's min(1) left out
createTaskInputSchema_anyTitle(input) ==
    /\ IsString(input.title)
    /\ (IsString(input.description) \/ input.description \in {Null, Undefined})

createTaskInputSchema(input) ==
    /\ IsString(input.title) /\ Len(input.title) >= 1
    /\ (IsString(input.description) \/ input.description \in {Null, Undefined})

updateTaskInputSchema(input) ==
    /\ input.id \in Int
    /\ (input.title = Undefined \/ (IsString(input.title) /\ Len(input.title) >= 1))
    /\ (IsString(input.description) \/ input.description \in {Null, Undefined})
    /\ input.completed \in Bools \cup {Undefined}

toggleTaskInputSchema(input) ==
    /\ input.id \in Int
    /\ input.completed \in Bools

deleteTaskInputSchema(input) ==
    input.id \in Int

(***************************************************************************)
(* Outcomes of a call.                                                     *)
(***************************************************************************)
Ok(task) == [kind |-> "ok", task |-> task]
Thrown(message) == [kind |-> "error", message |-> message]
Rejected == [kind |-> "validation"]
\* a resolved call whose value is no Task: { success } or the list of tasks
Returned(value) == [kind |-> "ok", value |-> value]

\* settled, when the last step was no handler resuming
NotSettled == [op |-> "none"]

NotFoundMessage(id) == <<"Task with id ", id, " not found">>

(***************************************************************************)
(* The database: insert with the column defaults, update by key.           *)
(***************************************************************************)
\* The columns the table fills in by default: id from the serial sequence,
\* created_at and updated_at both now()
tasksTableDefaults(seq, now) ==
    [id |-> seq, created_at |-> now, updated_at |-> now]

\* INSERT ... VALUES ... RETURNING
dbInsert(table, seq, now, values) ==
    LET defaults == tasksTableDefaults(seq, now)
        row == [id |-> defaults.id,
                title |-> values.title,
                description |-> values.description,
                completed |-> values.completed,
                created_at |-> defaults.created_at,
                updated_at |-> defaults.updated_at]
    IN  [table |-> [i \in DOMAIN table \cup {row.id} |->
                        IF i = row.id THEN row ELSE table[i]],
         seq |-> seq + 1,
         returning |-> <<row>>]

\* UPDATE ... SET completed, updated_at WHERE id = ... RETURNING
dbUpdateCompleted(table, id, completed, updated_at) ==
    LET hit == {i \in DOMAIN table : i = id}
        new(i) == [table[i] EXCEPT !.completed = completed,
                                   !.updated_at = updated_at]
    IN  [table |-> [i \in DOMAIN table |-> IF i \in hit THEN new(i) ELSE table[i]],
         returning |-> IF id \in hit THEN <<new(id)>> ELSE << >>]

(***************************************************************************)
(* The handlers.  Each gives the table (and sequence) after the call and   *)
(* the call's outcome.                                                     *)
(***************************************************************************)
\* A faulty variant: the stub that stores nothing and answers with id 0
createTask_stub(input, table, seq, now) ==
    [table |-> table,
     seq |-> seq,
     result |-> Ok([id |-> 0,
                    title |-> input.title,
                    description |-> IF Truthy(input.description)
                                    THEN input.description ELSE Null,
                    completed |-> False,
                    created_at |-> now,
                    updated_at |-> now])]

\* A faulty variant: ?? in place of ||, which keeps the empty string
createTask_nullish(input, table, seq, now) ==
    LET ins == dbInsert(table, seq, now,
                   [title |-> input.title,
                    description |-> IF input.description \notin {Null, Undefined}
                                    THEN input.description ELSE Null,
                    completed |-> False])
    IN  [table |-> ins.table, seq |-> ins.seq, result |-> Ok(ins.returning[1])]

createTask(input, table, seq, now) ==
    LET ins == dbInsert(table, seq, now,
                   [title |-> input.title,
                    description |-> IF Truthy(input.description)
                                    THEN input.description ELSE Null,
                    completed |-> False])
    IN  [table |-> ins.table, seq |-> ins.seq, result |-> Ok(ins.returning[1])]

\* A faulty variant: completed flipped from its stored value, the input's ignored
toggleTask_flips(input, table, seq, now) ==
    LET flipped == IF input.id \in DOMAIN table /\ table[input.id].completed = True
                   THEN False ELSE True
        upd == dbUpdateCompleted(table, input.id, flipped, now)
    IN  [table |-> upd.table,
         seq |-> seq,
         result |-> IF Len(upd.returning) = 0
                    THEN Thrown(NotFoundMessage(input.id))
                    ELSE Ok(upd.returning[1])]

\* A faulty variant: the empty result not checked, result[0] returned as it is
toggleTask_unchecked(input, table, seq, now) ==
    LET upd == dbUpdateCompleted(table, input.id, input.completed, now)
    IN  [table |-> upd.table,
         seq |-> seq,
         result |-> IF Len(upd.returning) = 0
                    THEN Ok(Undefined)
                    ELSE Ok(upd.returning[1])]

\* A faulty variant: created_at written in place of updated_at
toggleTask_setsCreatedAt(input, table, seq, now) ==
    LET hit == {i \in DOMAIN table : i = input.id}
        new(i) == [table[i] EXCEPT !.completed = input.completed,
                                   !.created_at = now]
    IN  [table |-> [i \in DOMAIN table |-> IF i \in hit THEN new(i) ELSE table[i]],
         seq |-> seq,
         result |-> IF hit = {}
                    THEN Thrown(NotFoundMessage(input.id))
                    ELSE Ok(new(input.id))]

\* A faulty variant: updated_at left out of the SET
toggleTask_keepsUpdatedAt(input, table, seq, now) ==
    LET stored == IF input.id \in DOMAIN table
                  THEN table[input.id].updated_at ELSE now
        upd == dbUpdateCompleted(table, input.id, input.completed, stored)
    IN  [table |-> upd.table,
         seq |-> seq,
         result |-> IF Len(upd.returning) = 0
                    THEN Thrown(NotFoundMessage(input.id))
                    ELSE Ok(upd.returning[1])]

toggleTask(input, table, seq, now) ==
    LET upd == dbUpdateCompleted(table, input.id, input.completed, now)
    IN  [table |-> upd.table,
         seq |-> seq,
         result |-> IF Len(upd.returning) = 0
                    THEN Thrown(NotFoundMessage(input.id))
                    ELSE Ok(upd.returning[1])]

updateTask(input, table, seq, now) ==
    [table |-> table,
     seq |-> seq,
     result |-> Ok([id |-> input.id,
                    title |-> IF Truthy(input.title) THEN input.title
                              ELSE PlaceholderTitle,
                    description |-> IF input.description # Undefined
                                    THEN input.description ELSE Null,
                    completed |-> IF TruthyBool(input.completed)
                                  THEN input.completed ELSE False,
                    created_at |-> now,
                    updated_at |-> now])]

\* DELETE ... WHERE id = ...: the table without the row, and the rows removed
dbDelete(table, id) ==
    LET hit == {i \in DOMAIN table : i = id}
    IN  [table |-> [i \in DOMAIN table \ hit |-> table[i]],
         rowCount |-> Cardinality(hit)]

\* A faulty variant: success: true whether or not a row was removed
deleteTask_alwaysTrue(input, table, seq, now) ==
    [table |-> dbDelete(table, input.id).table,
     seq |-> seq,
     result |-> Returned([success |-> True])]

\* A faulty variant: the WHERE clause left out, every row removed
deleteTask_allRows(input, table, seq, now) ==
    [table |-> << >>,
     seq |-> seq,
     result |-> Returned([success |-> IF input.id \in DOMAIN table
                                      THEN True ELSE False])]

deleteTask(input, table, seq, now) ==
    LET del == dbDelete(table, input.id)
    IN  [table |-> del.table,
         seq |-> seq,
         result |-> Returned([success |-> IF del.rowCount > 0 THEN True ELSE False])]

\* SELECT ... ORDER BY created_at DESC: every order of the rows the database
\* may answer with; rows with the same created_at come in any order
dbSelectNewestFirst(table) ==
    LET n == Cardinality(DOMAIN table)
        orders == {o \in [1..n -> DOMAIN table] :
                      /\ \A i, j \in 1..n : i # j => o[i] # o[j]
                      /\ \A i, j \in 1..n :
                             i < j => table[o[i]].created_at >= table[o[j]].created_at}
    IN  {[i \in 1..n |-> table[o[i]]] : o \in orders}

\* A faulty variant: oldest first
getTasks_oldestFirst(table) ==
    LET n == Cardinality(DOMAIN table)
        orders == {o \in [1..n -> DOMAIN table] :
                      /\ \A i, j \in 1..n : i # j => o[i] # o[j]
                      /\ \A i, j \in 1..n :
                             i < j => table[o[i]].created_at =< table[o[j]].created_at}
    IN  {[i \in 1..n |-> table[o[i]]] : o \in orders}

\* A faulty variant: only unfinished tasks listed
getTasks_onlyOpen(table) ==
    LET open == [i \in {k \in DOMAIN table : table[k].completed = False} |-> table[i]]
    IN  dbSelectNewestFirst(open)

\* The lists getTasks may resolve with
getTasks(table) == dbSelectNewestFirst(table)

(***************************************************************************)
(* The RPC procedures: validate the input, then call the handler.          *)
(***************************************************************************)
\* What the caller gets
Outcome(valid, out) == IF valid THEN out.result ELSE Rejected

Procedure(op, input, valid, out) ==
    LET result == Outcome(valid, out)
    IN  /\ tasksTable' = IF valid THEN out.table ELSE tasksTable
        /\ idSeq' = IF valid THEN out.seq ELSE idSeq
        /\ created' = IF op = "createTask" /\ result.kind = "ok"
                      THEN created \cup {result.task.id} ELSE created
        /\ deleted' = IF op = "deleteTask" /\ result.kind = "ok"
                           /\ result.value.success = True
                      THEN deleted \cup {input.id} ELSE deleted
        /\ UNCHANGED clock

\* a call that does not come from the App
Call(op, input, valid, out) ==
    /\ Procedure(op, input, valid, out)
    /\ last' = [op |-> op, input |-> input, pre |-> tasksTable, now |-> clock,
                result |-> Outcome(valid, out)]
    /\ UNCHANGED clientVars

CreateTaskOver(inputs) ==
    \E input \in inputs :
        /\ createTaskInputSchema(input) => idSeq <= MaxTasks
        /\ Call("createTask", input, createTaskInputSchema(input),
                createTask(input, tasksTable, idSeq, clock))

CreateTaskRpc == CreateTaskOver(CreateInputs)

ToggleTaskRpc ==
    \E input \in ToggleInputs :
        Call("toggleTask", input, toggleTaskInputSchema(input),
             toggleTask(input, tasksTable, idSeq, clock))

UpdateTaskOver(inputs) ==
    \E input \in inputs :
        Call("updateTask", input, updateTaskInputSchema(input),
             updateTask(input, tasksTable, idSeq, clock))

UpdateTaskRpc == UpdateTaskOver(UpdateInputs)

DeleteTaskRpc ==
    \E input \in DeleteInputs :
        Call("deleteTask", input, deleteTaskInputSchema(input),
             deleteTask(input, tasksTable, idSeq, clock))

GetTasksRpc ==
    \E list \in getTasks(tasksTable) :
        Call("getTasks", Undefined, TRUE,
             [table |-> tasksTable, seq |-> idSeq, result |-> Returned(list)])

Tick ==
    /\ clock < MaxTime
    /\ clock' = clock + 1
    /\ UNCHANGED <<tasksTable, idSeq, last, created, deleted, clientVars>>

Init ==
    /\ tasksTable = << >>
    /\ idSeq = 1
    /\ clock = 0
    /\ last = [op |-> "none"]
    /\ created = {}
    /\ deleted = {}
    /\ tasks = << >>
    /\ isLoading = FALSE
    /\ newTaskTitle = << >>
    /\ isCreating = FALSE
    /\ loadTasksPc = "start"
    /\ rpcs = << >>
    /\ settled = NotSettled
    /\ added = {}
    /\ removed = {}

(***************************************************************************)
(* The specifications of the service.  updateTask never writes the table,  *)
(* so it adds no reachable table: Spec explores createTask and toggleTask  *)
(* over all their inputs, and SpecUpdate explores the calls of updateTask  *)
(* on the tables createTask builds.  SpecStore runs the five procedures    *)
(* together, createTask and updateTask over fewer inputs.                  *)
(***************************************************************************)
Next == CreateTaskRpc \/ ToggleTaskRpc \/ Tick

Spec == Init /\ [][Next]_vars

NextUpdate == CreateTaskRpc \/ UpdateTaskRpc \/ Tick

SpecUpdate == Init /\ [][NextUpdate]_vars

StoreCreateTaskRpc == CreateTaskOver(StoreCreateInputs)

StoreUpdateTaskRpc == UpdateTaskOver(StoreUpdateInputs)

NextStore ==
    \/ StoreCreateTaskRpc
    \/ StoreUpdateTaskRpc
    \/ ToggleTaskRpc
    \/ DeleteTaskRpc
    \/ GetTasksRpc
    \/ Tick

SpecStore == Init /\ [][NextStore]_vars

(***************************************************************************)
(* The client: the App component.                                          *)
(***************************************************************************)
\* String.prototype.trim, on the texts typed here: spaces taken off both ends
RECURSIVE trimStart(_)
trimStart(str) ==
    IF str # << >> /\ Head(str) = " " THEN trimStart(Tail(str)) ELSE str

RECURSIVE trimEnd(_)
trimEnd(str) ==
    IF str # << >> /\ str[Len(str)] = " "
    THEN trimEnd(SubSeq(str, 1, Len(str) - 1))
    ELSE str

trim(str) == trimEnd(trimStart(str))

\* The texts the user types into the input
TypedTitles == {<<" ">>, <<"a", " ">>}

\* An RPC of the client: on its way to the server, or answered and on its
\* way back
Pending == [kind |-> "pending"]

\* The input of a query that takes none, as a record like the other inputs
NoInput == [void |-> Undefined]

Request(op, input) == [op |-> op, input |-> input, stage |-> "sent", result |-> Pending]

Answered(rpc, result) == [rpc EXCEPT !.stage = "answered", !.result = result]

NetworkError == <<"Failed to fetch">>

InFlight(ops) == {i \in DOMAIN rpcs : rpcs[i].op \in ops}

Without(seq, i) == SubSeq(seq, 1, i - 1) \o SubSeq(seq, i + 1, Len(seq))

\* The disabled props of the controls
\* A faulty variant: the submit button disabled by the empty title only
submitDisabled_titleOnly == trim(newTaskTitle) = << >>

submitDisabled == isCreating \/ trim(newTaskTitle) = << >>

inputDisabled == isCreating

\* A faulty variant: the checkbox never disabled
checkboxDisabled_never == FALSE

checkboxDisabled == isLoading

deleteDisabled == isLoading

\* The updates of the local list
\* A faulty variant: the new task put in front
appendTask_inFront(prev, newTask) == <<newTask>> \o prev

appendTask(prev, newTask) == prev \o <<newTask>>

\* A faulty variant: the test of the id left out, every task given the value
mergeCompleted_all(prev, taskId, updatedTask) ==
    [k \in DOMAIN prev |-> [prev[k] EXCEPT !.completed = updatedTask.completed]]

mergeCompleted(prev, taskId, updatedTask) ==
    [k \in DOMAIN prev |->
        IF prev[k].id = taskId
        THEN [prev[k] EXCEPT !.completed = updatedTask.completed]
        ELSE prev[k]]

\* A faulty variant: the filter's test turned round, only that task kept
RECURSIVE removeTask_keepsOnly(_, _)
removeTask_keepsOnly(prev, taskId) ==
    IF prev = << >> THEN << >>
    ELSE IF Head(prev).id = taskId
         THEN <<Head(prev)>> \o removeTask_keepsOnly(Tail(prev), taskId)
         ELSE removeTask_keepsOnly(Tail(prev), taskId)

RECURSIVE removeTask(_, _)
removeTask(prev, taskId) ==
    IF prev = << >> THEN << >>
    ELSE IF Head(prev).id # taskId
         THEN <<Head(prev)>> \o removeTask(Tail(prev), taskId)
         ELSE removeTask(Tail(prev), taskId)

\* A handler runs up to its await: the RPC leaves
Send(op, input) ==
    /\ Len(rpcs) < MaxInFlight
    /\ rpcs' = Append(rpcs, Request(op, input))
    /\ settled' = NotSettled
    /\ UNCHANGED <<serverVars, added, removed>>

\* A handler runs on from its await with the RPC's outcome
Resume(i) ==
    /\ rpcs' = Without(rpcs, i)
    /\ settled' = [op |-> rpcs[i].op, input |-> rpcs[i].input,
                   result |-> rpcs[i].result, pre |-> tasks]
    /\ UNCHANGED serverVars

\* useEffect on mount: loadTasks up to the await of getTasks
loadTasks ==
    /\ loadTasksPc = "start"
    /\ loadTasksPc' = "await"
    /\ Send("getTasks", NoInput)
    /\ UNCHANGED <<tasks, isLoading, newTaskTitle, isCreating>>

\* loadTasks from the await on: the list replaced, or the error logged
loadTasksResume ==
    \E i \in DOMAIN rpcs :
        /\ rpcs[i].op = "getTasks" /\ rpcs[i].stage = "answered"
        /\ tasks' = IF rpcs[i].result.kind = "ok" THEN rpcs[i].result.value ELSE tasks
        /\ loadTasksPc' = "done"
        /\ Resume(i)
        /\ UNCHANGED <<isLoading, newTaskTitle, isCreating, added, removed>>

\* onChange of the input
setNewTaskTitle ==
    /\ loadTasksPc # "start"
    /\ ~inputDisabled
    /\ \E value \in TypedTitles :
           /\ newTaskTitle # value
           /\ newTaskTitle' = value
    /\ settled' = NotSettled
    /\ UNCHANGED <<serverVars, tasks, isLoading, isCreating, loadTasksPc, rpcs, added, removed>>

\* The form submitted: handleCreateTask up to the await of createTask
handleCreateTask ==
    /\ loadTasksPc # "start"
    /\ ~submitDisabled
    /\ trim(newTaskTitle) # << >>
    /\ idSeq + Cardinality(InFlight({"createTask"})) <= MaxTasks
    /\ isCreating' = TRUE
    /\ Send("createTask", [title |-> trim(newTaskTitle), description |-> Null])
    /\ UNCHANGED <<tasks, isLoading, newTaskTitle, loadTasksPc>>

\* handleCreateTask from the await on
handleCreateTaskResume ==
    \E i \in DOMAIN rpcs :
        /\ rpcs[i].op = "createTask" /\ rpcs[i].stage = "answered"
        /\ IF rpcs[i].result.kind = "ok"
           THEN /\ tasks' = appendTask(tasks, rpcs[i].result.task)
                /\ newTaskTitle' = << >>
                /\ added' = added \cup {rpcs[i].result.task.id}
           ELSE UNCHANGED <<tasks, newTaskTitle, added>>
        /\ isCreating' = FALSE
        /\ Resume(i)
        /\ UNCHANGED <<isLoading, loadTasksPc, removed>>

\* A checkbox changed: handleToggleTask up to the await of toggleTask
handleToggleTask ==
    /\ ~checkboxDisabled
    /\ \E k \in DOMAIN tasks, completed \in Bools :
           Send("toggleTask", [id |-> tasks[k].id, completed |-> completed])
    /\ isLoading' = TRUE
    /\ UNCHANGED <<tasks, newTaskTitle, isCreating, loadTasksPc>>

\* A faulty variant: setIsLoading(false) after the merge in try, not in finally
handleToggleTaskResume_noFinally ==
    \E i \in DOMAIN rpcs :
        /\ rpcs[i].op = "toggleTask" /\ rpcs[i].stage = "answered"
        /\ IF rpcs[i].result.kind = "ok"
           THEN /\ tasks' = mergeCompleted(tasks, rpcs[i].input.id, rpcs[i].result.task)
                /\ isLoading' = FALSE
           ELSE UNCHANGED <<tasks, isLoading>>
        /\ Resume(i)
        /\ UNCHANGED <<newTaskTitle, isCreating, loadTasksPc, added, removed>>

\* handleToggleTask from the await on
handleToggleTaskResume ==
    \E i \in DOMAIN rpcs :
        /\ rpcs[i].op = "toggleTask" /\ rpcs[i].stage = "answered"
        /\ tasks' = IF rpcs[i].result.kind = "ok"
                    THEN mergeCompleted(tasks, rpcs[i].input.id, rpcs[i].result.task)
                    ELSE tasks
        /\ isLoading' = FALSE
        /\ Resume(i)
        /\ UNCHANGED <<newTaskTitle, isCreating, loadTasksPc, added, removed>>

\* A delete button clicked: handleDeleteTask up to the await of deleteTask
handleDeleteTask ==
    /\ ~deleteDisabled
    /\ \E k \in DOMAIN tasks : Send("deleteTask", [id |-> tasks[k].id])
    /\ isLoading' = TRUE
    /\ UNCHANGED <<tasks, newTaskTitle, isCreating, loadTasksPc>>

\* handleDeleteTask from the await on
handleDeleteTaskResume ==
    \E i \in DOMAIN rpcs :
        /\ rpcs[i].op = "deleteTask" /\ rpcs[i].stage = "answered"
        /\ IF rpcs[i].result.kind = "ok" /\ TruthyBool(rpcs[i].result.value.success)
           THEN /\ tasks' = removeTask(tasks, rpcs[i].input.id)
                /\ removed' = removed \cup {rpcs[i].input.id}
           ELSE UNCHANGED <<tasks, removed>>
        /\ isLoading' = FALSE
        /\ Resume(i)
        /\ UNCHANGED <<newTaskTitle, isCreating, loadTasksPc, added>>

\* The server takes an RPC of the client and answers it
Serve(i, op, input, valid, out) ==
    /\ Procedure(op, input, valid, out)
    /\ rpcs' = [rpcs EXCEPT ![i] = Answered(rpcs[i], Outcome(valid, out))]
    /\ settled' = NotSettled
    /\ UNCHANGED <<last, appVars, added, removed>>

ServerAnswers ==
    \E i \in DOMAIN rpcs :
        LET input == rpcs[i].input
        IN  /\ rpcs[i].stage = "sent"
            /\ \/ /\ rpcs[i].op = "getTasks"
                  /\ \E list \in getTasks(tasksTable) :
                         Serve(i, "getTasks", input, TRUE,
                               [table |-> tasksTable, seq |-> idSeq,
                                result |-> Returned(list)])
               \/ /\ rpcs[i].op = "createTask"
                  /\ Serve(i, "createTask", input, createTaskInputSchema(input),
                           createTask(input, tasksTable, idSeq, clock))
               \/ /\ rpcs[i].op = "toggleTask"
                  /\ Serve(i, "toggleTask", input, toggleTaskInputSchema(input),
                           toggleTask(input, tasksTable, idSeq, clock))
               \/ /\ rpcs[i].op = "deleteTask"
                  /\ Serve(i, "deleteTask", input, deleteTaskInputSchema(input),
                           deleteTask(input, tasksTable, idSeq, clock))

\* An RPC is lost on its way to the server: the call is rejected
NetworkFails ==
    \E i \in DOMAIN rpcs :
        /\ rpcs[i].stage = "sent"
        /\ rpcs' = [rpcs EXCEPT ![i] = Answered(rpcs[i], Thrown(NetworkError))]
        /\ settled' = NotSettled
        /\ UNCHANGED <<serverVars, appVars, added, removed>>

\* A task that is in the table before the App is mounted
StoredBefore ==
    /\ loadTasksPc = "start"
    /\ StoreCreateTaskRpc

(***************************************************************************)
(* The specification of the client: one App and the service it calls.      *)
(***************************************************************************)
NextClient ==
    \/ StoredBefore
    \/ loadTasks
    \/ loadTasksResume
    \/ setNewTaskTitle
    \/ handleCreateTask
    \/ handleCreateTaskResume
    \/ handleToggleTask
    \/ handleToggleTaskResume
    \/ handleDeleteTask
    \/ handleDeleteTaskResume
    \/ ServerAnswers
    \/ NetworkFails

SpecClient == Init /\ [][NextClient]_vars

(***************************************************************************)
(* The client used only once loadTasks is done, no RPC lost, while the     *)
(* clock runs.                                                             *)
(***************************************************************************)
AfterLoad(handler) == loadTasksPc = "done" /\ handler

NextAfterLoad ==
    \/ StoredBefore
    \/ loadTasks
    \/ loadTasksResume
    \/ AfterLoad(setNewTaskTitle)
    \/ AfterLoad(handleCreateTask)
    \/ handleCreateTaskResume
    \/ AfterLoad(handleToggleTask)
    \/ handleToggleTaskResume
    \/ AfterLoad(handleDeleteTask)
    \/ handleDeleteTaskResume
    \/ ServerAnswers
    \/ Tick

SpecAfterLoad == Init /\ [][NextAfterLoad]_vars

(***************************************************************************)
(* The client whose handlers do run on: the event loop runs a handler on   *)
(* once the RPC it awaits has settled.  Tasks are created at any time,     *)
(* checkboxes and delete buttons are used once loadTasks is done; RPCs may *)
(* be lost, and an RPC need never be answered.                             *)
(***************************************************************************)
NextClientFair ==
    \/ StoredBefore
    \/ loadTasks
    \/ loadTasksResume
    \/ setNewTaskTitle
    \/ handleCreateTask
    \/ handleCreateTaskResume
    \/ AfterLoad(handleToggleTask)
    \/ handleToggleTaskResume
    \/ AfterLoad(handleDeleteTask)
    \/ handleDeleteTaskResume
    \/ ServerAnswers
    \/ NetworkFails

SpecClientFair ==
    /\ Init /\ [][NextClientFair]_vars
    /\ WF_vars(handleCreateTaskResume)
    /\ WF_vars(handleToggleTaskResume)
    /\ WF_vars(handleDeleteTaskResume)

(***************************************************************************)
(* What the claims speak of: the last call, once the boundary has let it   *)
(* through to its handler.                                                 *)
(***************************************************************************)
Handled(op) == last.op = op /\ last.result.kind # "validation"

TargetExisted == last.input.id \in DOMAIN last.pre

\* The row a partial update is meant to leave: the fields present in the
\* input replace the row's, the absent ones stay
Merged(row, input) ==
    [row EXCEPT
        !.title = IF input.title # Undefined THEN input.title ELSE @,
        !.description = IF input.description # Undefined THEN input.description ELSE @,
        !.completed = IF input.completed # Undefined THEN input.completed ELSE @]

SameButUpdatedAt(a, b) ==
    [a EXCEPT !.updated_at = 0] = [b EXCEPT !.updated_at = 0]

OthersUnchanged(id) ==
    /\ DOMAIN tasksTable = DOMAIN last.pre
    /\ \A i \in DOMAIN last.pre \ {id} : tasksTable[i] = last.pre[i]

(***************************************************************************)
(* C1: updateTask with an id that matches no stored task fails with a      *)
(* not-found error naming that id, returns no Task, and changes no row.    *)
(***************************************************************************)
C1_UpdateMissingIdFails ==
    (Handled("updateTask") /\ ~TargetExisted) =>
        /\ last.result.kind = "error"
        /\ \E k \in DOMAIN last.result.message :
               last.result.message[k] = last.input.id
        /\ tasksTable = last.pre

(***************************************************************************)
(* C2: updateTask on an existing task returns, and stores, the previous    *)
(* row with exactly the present fields replaced; the absent fields, id and *)
(* created_at stay.                                                        *)
(***************************************************************************)
C2_UpdateMergesPresentFields ==
    (Handled("updateTask") /\ TargetExisted) =>
        LET want == Merged(last.pre[last.input.id], last.input)
        IN  /\ last.result.kind = "ok"
            /\ SameButUpdatedAt(last.result.task, want)
            /\ SameButUpdatedAt(tasksTable[last.input.id], want)
            /\ OthersUnchanged(last.input.id)

(***************************************************************************)
(* C3: every successful updateTask on an existing task strictly increases  *)
(* the task's updated_at, also when the input holds only the id or the     *)
(* supplied fields equal the stored ones.                                  *)
(***************************************************************************)
C3_UpdateAdvancesUpdatedAt ==
    (Handled("updateTask") /\ TargetExisted /\ last.result.kind = "ok") =>
        tasksTable[last.input.id].updated_at > last.pre[last.input.id].updated_at

(***************************************************************************)
(* C4: toggleTask(id, completed) on an existing task sets completed to the *)
(* given value, leaves the task's id, title, description and created_at    *)
(* and every other row unchanged, and returns the stored row.              *)
(***************************************************************************)
C4_ToggleSetsCompletedOnly ==
    (Handled("toggleTask") /\ TargetExisted) =>
        LET id == last.input.id
            old == last.pre[id]
            new == tasksTable[id]
        IN  /\ new.completed = last.input.completed
            /\ new.id = old.id
            /\ new.title = old.title
            /\ new.description = old.description
            /\ new.created_at = old.created_at
            /\ OthersUnchanged(id)
            /\ last.result = Ok(new)

\* a toggle to the value the task already had, with another task in the table
C4_Witness ==
    /\ Handled("toggleTask") /\ TargetExisted
    /\ last.input.completed = True
    /\ last.pre[last.input.id].completed = True
    /\ last.pre[last.input.id].description = <<"d">>
    /\ Cardinality(DOMAIN last.pre) >= 2

(***************************************************************************)
(* C5: toggleTask with an id that matches no stored task fails with the    *)
(* error 'Task with id <id> not found', returns no Task and leaves the     *)
(* table unchanged.                                                        *)
(***************************************************************************)
C5_ToggleMissingIdFails ==
    (Handled("toggleTask") /\ ~TargetExisted) =>
        /\ last.result = [kind |-> "error",
                          message |-> <<"Task with id ", last.input.id, " not found">>]
        /\ tasksTable = last.pre

C5_Witness ==
    /\ Handled("toggleTask") /\ ~TargetExisted
    /\ last.input.id = 2
    /\ DOMAIN last.pre = {1}


(***************************************************************************)
(* C6: toggleTask called twice in a row with the same id and the same      *)
(* completed value leaves completed at that value after both calls, and    *)
(* each of the two calls strictly advances updated_at.                     *)
(*                                                                         *)
(* A step is the second of two such calls when the last call was a         *)
(* toggleTask that found its task and this step is a toggleTask with the   *)
(* same input (the clock may have ticked in between).                      *)
(***************************************************************************)
SecondToggleInARow ==
    /\ Handled("toggleTask") /\ last.result.kind = "ok"
    /\ last'.op = "toggleTask"
    /\ last'.input = last.input
    /\ last'.pre = tasksTable
    /\ last'.now = clock
    /\ clock' = clock

C7_ToggleIsUpdateOfCompleted ==
    Handled("toggleTask") =>
        LET asUpdate == updateTask([id |-> last.input.id,
                                    title |-> Undefined,
                                    description |-> Undefined,
                                    completed |-> last.input.completed],
                                   last.pre, idSeq, last.now)
        IN  /\ asUpdate.table = tasksTable
            /\ asUpdate.result = last.result

(***************************************************************************)
(* C8: for every valid input createTask adds exactly one row and returns   *)
(* it: title is the input's, completed is false, the id is no other stored *)
(* task's, and created_at equals updated_at.                               *)
(***************************************************************************)
C8_CreateAddsOneRow ==
    Handled("createTask") =>
        /\ last.result.kind = "ok"
        /\ LET task == last.result.task
           IN  /\ task.id \notin DOMAIN last.pre
               /\ DOMAIN tasksTable = DOMAIN last.pre \cup {task.id}
               /\ \A i \in DOMAIN last.pre : tasksTable[i] = last.pre[i]
               /\ \A i \in DOMAIN tasksTable : tasksTable[i].id = i
               /\ tasksTable[task.id] = task
               /\ task.title = last.input.title
               /\ task.completed = False
               /\ task.created_at = task.updated_at

\* a second task created, after the clock has moved on
C8_Witness ==
    /\ Handled("createTask")
    /\ Cardinality(DOMAIN last.pre) = 1
    /\ Cardinality(DOMAIN tasksTable) = 2
    /\ last.now > 0

(***************************************************************************)
(* C9: for every input createTaskInputSchema accepts, the created task's   *)
(* description is the input's when a string was given and null when the    *)
(* description was absent or null.                                         *)
(***************************************************************************)
C9_CreateKeepsStringDescription ==
    Handled("createTask") =>
        /\ last.result.kind = "ok"
        /\ last.result.task.description =
               IF IsString(last.input.description)
               THEN last.input.description ELSE Null

\* C9, as amended: the created task's description is the input's when a
\* non-empty string was given; absent, null and the empty string all give null
C9_CreateKeepsNonEmptyDescription ==
    Handled("createTask") =>
        /\ last.result.kind = "ok"
        /\ LET given == last.input.description
               stored == tasksTable[last.result.task.id].description
           IN  /\ stored = last.result.task.description
               /\ (given \in {Undefined, Null, << >>} => stored = Null)
               /\ (given \notin {Undefined, Null, << >>} => stored = given)

C9_Witness ==
    /\ Handled("createTask")
    /\ last.input.description = << >>
    /\ last.result.task.description = Null

(***************************************************************************)
(* C10: a create or update request whose title is the empty string is      *)
(* rejected by schema validation before any store call: the table is       *)
(* unchanged and no Task is returned.                                      *)
(***************************************************************************)
C10_EmptyTitleRejected ==
    (last.op \in {"createTask", "updateTask"} /\ last.input.title = << >>) =>
        /\ last.result = Rejected
        /\ tasksTable = last.pre

\* an update with an empty title, aimed at a task that exists
C10_Witness ==
    /\ last.op = "updateTask"
    /\ last.input.title = << >>
    /\ TargetExisted
    /\ last.result = Rejected


(***************************************************************************)
(* C11: deleteTask on an id that exists returns success: true and the id   *)
(* is absent from every later getTasks result; a following deleteTask on   *)
(* the same id returns success: false and is not an error.                 *)
(***************************************************************************)
C11_DeleteRemovesForGood ==
    /\ (Handled("deleteTask") /\ TargetExisted) =>
           /\ last.result = Returned([success |-> True])
           /\ last.input.id \notin DOMAIN tasksTable
    /\ \A id \in deleted : id \notin DOMAIN tasksTable
    /\ last.op = "getTasks" =>
           \A k \in DOMAIN last.result.value : last.result.value[k].id \notin deleted
    /\ (Handled("deleteTask") /\ last.input.id \in deleted /\ ~TargetExisted) =>
           last.result = Returned([success |-> False])

\* the second deleteTask on an id, another task still stored
C11_Witness ==
    /\ Handled("deleteTask")
    /\ last.input.id \in deleted
    /\ ~TargetExisted
    /\ DOMAIN tasksTable # {}

(***************************************************************************)
(* C12: deleteTask(id) leaves every stored task with another id unchanged  *)
(* in every field, and when no task has that id it leaves the whole table  *)
(* unchanged, however often it is repeated.                                *)
(***************************************************************************)
C12_DeleteLeavesOthers ==
    Handled("deleteTask") =>
        /\ DOMAIN tasksTable = DOMAIN last.pre \ {last.input.id}
        /\ \A i \in DOMAIN last.pre \ {last.input.id} : tasksTable[i] = last.pre[i]
        /\ ~TargetExisted => tasksTable = last.pre

\* a task deleted while a finished task with another id stays
C12_Witness ==
    /\ Handled("deleteTask") /\ TargetExisted
    /\ \E i \in DOMAIN tasksTable : tasksTable[i].completed = True

(***************************************************************************)
(* C13: getTasks returns the tasks ordered by descending created_at; after *)
(* N tasks are created one after another it returns them in reverse        *)
(* creation order (ids are handed out in creation order).                  *)
(***************************************************************************)
C13_ListInReverseCreationOrder ==
    last.op = "getTasks" =>
        LET list == last.result.value
        IN  \A i, j \in DOMAIN list :
                i < j => /\ list[i].created_at >= list[j].created_at
                         /\ list[i].id > list[j].id

\* C13, as amended: getTasks returns the tasks ordered by descending
\* created_at, and tasks created one after another come in reverse creation
\* order wherever their created_at differ; tasks with the same created_at
\* come in either order
C13_ListNewestFirst ==
    last.op = "getTasks" =>
        LET list == last.result.value
        IN  \A i, j \in DOMAIN list :
                i < j => /\ list[i].created_at >= list[j].created_at
                         /\ (list[i].created_at # list[j].created_at
                                => list[i].id > list[j].id)

\* two tasks created at different times, listed
C13_Witness ==
    /\ last.op = "getTasks"
    /\ Len(last.result.value) = 2
    /\ last.result.value[1].created_at > last.result.value[2].created_at

(***************************************************************************)
(* C14: after any sequence of create, update, toggle and delete, getTasks  *)
(* returns exactly the tasks created and not yet deleted, each once and    *)
(* none missing; update and toggle never add or remove a task.             *)
(***************************************************************************)
C14_ListIsCreatedMinusDeleted ==
    /\ DOMAIN tasksTable = created \ deleted
    /\ last.op = "getTasks" =>
           LET list == last.result.value
           IN  /\ {list[k].id : k \in DOMAIN list} = created \ deleted
               /\ Len(list) = Cardinality(created \ deleted)
               /\ \A k \in DOMAIN list : list[k] = tasksTable[list[k].id]
    /\ (Handled("updateTask") \/ Handled("toggleTask")) =>
           DOMAIN tasksTable = DOMAIN last.pre

\* a list of one task, after another was created and deleted
C14_Witness ==
    /\ last.op = "getTasks"
    /\ Len(last.result.value) = 1
    /\ deleted # {}

(***************************************************************************)
(* C15: in every reachable state every task has updated_at >= created_at,  *)
(* and no update or toggle changes a task's created_at.                    *)
(***************************************************************************)
C15_TimestampsOrdered ==
    /\ \A i \in DOMAIN tasksTable :
           tasksTable[i].updated_at >= tasksTable[i].created_at
    /\ (Handled("updateTask") \/ Handled("toggleTask")) =>
           \A i \in DOMAIN last.pre :
               /\ i \in DOMAIN tasksTable
               /\ tasksTable[i].created_at = last.pre[i].created_at

\* a toggle some time after the task was created
C15_Witness ==
    /\ Handled("toggleTask") /\ TargetExisted
    /\ tasksTable[last.input.id].updated_at > tasksTable[last.input.id].created_at


(***************************************************************************)
(* What the client's claims speak of.                                      *)
(***************************************************************************)
LocalIds == {tasks[k].id : k \in DOMAIN tasks}

Resumed(op) == settled.op = op

(***************************************************************************)
(* C16: while an RPC issued by a control is in flight that control is      *)
(* disabled, so at most one createTask RPC is in flight and at most one    *)
(* toggleTask or deleteTask RPC is in flight at any time.                  *)
(***************************************************************************)
C16_OneRpcPerControl ==
    /\ InFlight({"createTask"}) # {} => (submitDisabled /\ inputDisabled)
    /\ InFlight({"toggleTask", "deleteTask"}) # {} => (checkboxDisabled /\ deleteDisabled)
    /\ Cardinality(InFlight({"createTask"})) <= 1
    /\ Cardinality(InFlight({"toggleTask", "deleteTask"})) <= 1

\* a createTask and a toggleTask in flight together, a title typed, a task listed
C16_Witness ==
    /\ InFlight({"createTask"}) # {}
    /\ InFlight({"toggleTask"}) # {}
    /\ tasks # << >>

(***************************************************************************)
(* C17: a deleteTask response of success: true removes exactly that task   *)
(* from the local list; a response of success: false, and any rejected     *)
(* createTask, toggleTask or deleteTask RPC, leaves the list unchanged.    *)
(***************************************************************************)
C17_ListFollowsResponse ==
    /\ (Resumed("deleteTask") /\ settled.result = Returned([success |-> True])) =>
           tasks = SelectSeq(settled.pre, LAMBDA task : task.id # settled.input.id)
    /\ (Resumed("deleteTask") /\ settled.result = Returned([success |-> False])) =>
           tasks = settled.pre
    /\ ((Resumed("createTask") \/ Resumed("toggleTask") \/ Resumed("deleteTask"))
            /\ settled.result.kind # "ok") =>
           tasks = settled.pre

\* success: false for a task that is listed, and the list left as it was
C17_Witness ==
    /\ Resumed("deleteTask")
    /\ settled.result = Returned([success |-> False])
    /\ settled.input.id \in LocalIds

(***************************************************************************)
(* C18: the task list is in its loading state exactly while the initial    *)
(* getTasks is in flight, and idle once that has settled.                  *)
(***************************************************************************)
C18_LoadingWhileInitialFetch ==
    isLoading <=> loadTasksPc = "await"

(***************************************************************************)
(* C19: a task whose createTask response the client has taken is in the    *)
(* local list until a deleteTask for it has answered success: true,        *)
(* however the createTask response and the initial getTasks response       *)
(* interleave.                                                             *)
(***************************************************************************)
C19_CreatedTaskStaysListed ==
    \A id \in added \ removed : id \in LocalIds

(***************************************************************************)
(* C20: one client, no RPC failing, every action after the initial fetch   *)
(* has settled: whenever no RPC is in flight the local list is the         *)
(* sequence getTasks would return: the same ids with the same completed    *)
(* values in the same order.                                               *)
(***************************************************************************)
C20_ListEqualsGetTasks ==
    (loadTasksPc = "done" /\ rpcs = << >>) =>
        \E list \in getTasks(tasksTable) :
            /\ Len(list) = Len(tasks)
            /\ \A k \in DOMAIN tasks :
                   /\ tasks[k].id = list[k].id
                   /\ tasks[k].completed = list[k].completed

\* C20, as amended: whenever no RPC is in flight the local list holds the
\* tasks getTasks would return, each once and with the same completed value,
\* but not in getTasks' order: the tasks created since the fetch stand
\* after the fetched ones, in the order they were created
C20_ListHoldsGetTasks ==
    (loadTasksPc = "done" /\ rpcs = << >>) =>
        /\ LocalIds = DOMAIN tasksTable
        /\ Len(tasks) = Cardinality(DOMAIN tasksTable)
        /\ \A k \in DOMAIN tasks : tasks[k].completed = tasksTable[tasks[k].id].completed
        /\ \A j, k \in DOMAIN tasks :
               (j < k /\ tasks[k].id \notin added) =>
                   /\ tasks[j].id \notin added
                   /\ tasks[j].created_at >= tasks[k].created_at
        /\ \A j, k \in DOMAIN tasks :
               (j < k /\ tasks[j].id \in added) =>
                   /\ tasks[k].id \in added
                   /\ tasks[j].id < tasks[k].id

\* a fetched task, finished since, then a task created later: getTasks
\* would list them the other way round
C20_Witness ==
    /\ loadTasksPc = "done" /\ rpcs = << >>
    /\ Len(tasks) = 2
    /\ tasks[1].id \notin added /\ tasks[1].completed = True
    /\ tasks[2].id \in added
    /\ tasksTable[tasks[1].id].created_at < tasksTable[tasks[2].id].created_at


\* The RPCs that have settled and whose handlers have yet to run on
Settling(ops) == {i \in InFlight(ops) : rpcs[i].stage = "answered"}

(***************************************************************************)
(* C21: isCreating is true exactly while a createTask RPC is in flight,    *)
(* and isLoading exactly while a toggleTask or deleteTask RPC is in        *)
(* flight; once the RPC has settled, answered or rejected, the flag goes   *)
(* back to false, so no control stays disabled for good.                   *)
(***************************************************************************)
C21_FlagsFollowRpcs ==
    /\ [](isCreating <=> InFlight({"createTask"}) # {})
    /\ [](isLoading <=> InFlight({"toggleTask", "deleteTask"}) # {})
    /\ [](Resumed("createTask") => ~isCreating)
    /\ []((Resumed("toggleTask") \/ Resumed("deleteTask")) => ~isLoading)
    /\ (Settling({"createTask"}) # {}) ~> ~isCreating
    /\ (Settling({"toggleTask", "deleteTask"}) # {}) ~> ~isLoading

\* a rejected toggleTask has settled and the checkboxes are enabled again,
\* while a createTask is still in flight
C21_Witness ==
    /\ Resumed("toggleTask") /\ settled.result.kind # "ok"
    /\ ~isLoading
    /\ isCreating /\ InFlight({"createTask"}) # {}

=============================================================================
